---- MODULE Spec2Model ----
(***************************************************************************)
(* State machine of the MessagingApp component of Chat-Pro.                *)
(*                                                                         *)
(* src/next.config.ts holds two versions of the component: the first at    *)
(* lines 25-877 and the second at lines 878-1928.  Spec is the second      *)
(* version; SpecV1 is the first one, which differs in handleSendMessage    *)
(* (it writes the message list of the rendered view, not of the store).    *)
(*                                                                         *)
(* Modelled: the stores kept with useState (currentUser, users, messages,  *)
(* newMessage, typingUsers, selectedUser), the closures of the last        *)
(* rendered view, the memo groupedMessages, the interval and the timeouts  *)
(* of the typing simulation and the clock read by Date.now().  The         *)
(* visibility flags of the menus and of the sidebar are page chrome and    *)
(* are not part of the model.                                              *)
(*                                                                         *)
(* Strings.  A message id `msg-${n}` is the integer n (the template is     *)
(* injective).  A text is a sequence of symbols, " " being whitespace.     *)
(* The optional isUser flag is a boolean, FALSE standing for "absent".     *)
(*                                                                         *)
(* Time.  Times are milliseconds since an epoch LoadTime before the        *)
(* module was loaded; the epoch is a local midnight, so that a calendar    *)
(* day is DayMs long and starts at a multiple of DayMs (the UTC offset     *)
(* does not change in the days modelled).  A handler takes no time; the    *)
(* clock advances by Quantum.  A timer never runs before it is due and may *)
(* run late, by less than two quanta; of the pending timers the one due    *)
(* first runs first.  A late run of the interval does not shift its next   *)
(* due time.                                                               *)
(* Updates made in a click, key or change event are rendered before the    *)
(* next event; updates made in a timer callback are rendered in a later    *)
(* task, so that an event may find the view of the previous render.        *)
(* Updates queued after the component is unmounted are dropped.            *)
(*                                                                         *)
(* Spec and SpecV1 are the whole component.  SpecSim is the typing         *)
(* simulation alone over a longer time.  SpecGroup computes the memo       *)
(* groupedMessages for message lists that the short run of Spec does not   *)
(* reach (several days, any order of the timestamps).                      *)
(* SpecLive is the typing simulation with weak fairness of the tick, of    *)
(* the stop callbacks and of the clock.  SpecDraft is the component from a *)
(* state with a draft in the compose field.                                *)
(***************************************************************************)
EXTENDS Integers, Sequences, FiniteSets, TLC

VARIABLES currentUser, users, messages, newMessage, typingUsers,
          selectedUser, view, groupedMessages, interval, timeouts, now,
          mounted, appended, nEvents, lastOp

vars == <<currentUser, users, messages, newMessage, typingUsers,
          selectedUser, view, groupedMessages, interval, timeouts, now,
          mounted, appended, nEvents, lastOp>>

(* ------------------------------ bounds --------------------------------- *)

\* the clock stops after MaxClock quanta
MaxClock == 4
\* at most MaxEvents events of the user (change, click, key)
MaxEvents == 2
\* the clock of the typing simulation alone stops after MaxSimClock quanta
MaxSimClock == 6
\* the message lists that groupedMessages is computed for have at most
\* MaxMessages messages
MaxMessages == 3

(* ------------------------- constants of the code ----------------------- *)

TickPeriod == 8000
TypingMin == 2000
TypingSpread == 3000
HourMs == 3600000

\* granularity of the clock: half a tick period
Quantum == TickPeriod \div 2
\* Date.now() when the module is loaded and the component mounts
LoadTime == 2 * HourMs

\* the six emojis are written by name, in the order of the source
quickStatuses ==
  <<"thumbsup", "thumbsdown", "heart", "joy", "wow", "sad", "brb", "busy">>

UserStatus == {"online", "offline", "busy", "brb"}

\* an avatar is the name of its entry in avatars; lastActive is "" where
\* the source leaves it out
defaultUsers ==
  << [id |-> "user-2", name |-> "Jane Smith", avatar |-> "female0",
      status |-> "online", lastActive |-> ""],
     [id |-> "user-3", name |-> "Robert Johnson", avatar |-> "male1",
      status |-> "online", lastActive |-> ""],
     [id |-> "user-4", name |-> "Emily Davis", avatar |-> "female1",
      status |-> "busy", lastActive |-> ""],
     [id |-> "user-5", name |-> "Michael Wilson", avatar |-> "male2",
      status |-> "brb", lastActive |-> ""],
     [id |-> "user-6", name |-> "Sarah Brown", avatar |-> "female2",
      status |-> "offline", lastActive |-> "2 hours ago"] >>

NoReactions == [e \in {} |-> <<>>]

Msg(id, senderId, content, timestamp, reactions, isUser) ==
  [id |-> id, senderId |-> senderId, content |-> content,
   timestamp |-> timestamp, reactions |-> reactions, isUser |-> isUser]

defaultMessages ==
  << Msg(1, "user-2", <<"Hi there! How are you doing?">>,
         LoadTime - 3600000, ("thumbsup" :> <<"user-3">>), FALSE),
     Msg(2, "user-1", <<"I'm good, thanks! How about you?">>,
         LoadTime - 3500000, NoReactions, TRUE),
     Msg(3, "user-2", <<"I'm doing well. Just working on that project we discussed.">>,
         LoadTime - 3400000, ("heart" :> <<"user-1", "user-4">>), FALSE),
     Msg(4, "user-3", <<"Hey team, just checking in. Any updates?">>,
         LoadTime - 1800000, NoReactions, FALSE),
     Msg(5, "user-1", <<"Yes, I just finished the design mockups. Will share shortly.">>,
         LoadTime - 1200000, ("thumbsup" :> <<"user-2", "user-3">>), TRUE),
     Msg(6, "user-4", <<"Looking forward to seeing them!">>,
         LoadTime - 900000, NoReactions, FALSE) >>

possibleMessages ==
  << <<"Hello!">>, <<"How are you?">>, <<"Can we meet tomorrow?">>,
     <<"I have a question about the project.">>,
     <<"Thanks for your help!">> >>

\* the texts typed into the compose box
ComposeTexts == { <<>>, <<" ">>, <<" ", "hi", " ">> }

\* the entries of quickStatuses picked in the reaction menu
MenuInputs == { quickStatuses[1] }

\* the positions in the rendered list of the messages that are reacted to:
\* the first, the third and the last message
TargetInputs(n) == { 1, 3, n }

\* the positions in the roster of the contacts that are selected
SelectInputs == { 1, Len(users) }

\* the values of Math.floor(Math.random() * possibleMessages.length) drawn
CannedInputs == { 1, Len(possibleMessages) }

\* a message id that no message carries
AbsentId == 0

(* ------------------------------ helpers -------------------------------- *)

Whitespace == {" "}

RECURSIVE TrimStart(_)
TrimStart(s) ==
  IF s = <<>> THEN s
  ELSE IF Head(s) \in Whitespace THEN TrimStart(Tail(s)) ELSE s

RECURSIVE TrimEnd(_)
TrimEnd(s) ==
  IF s = <<>> THEN s
  ELSE IF s[Len(s)] \in Whitespace
       THEN TrimEnd(SubSeq(s, 1, Len(s) - 1)) ELSE s

\* a forgotten trim: if (newMessage)
TrimNothing(s) == s

\* String.prototype.trim
Trim(s) == TrimEnd(TrimStart(s))

\* Array.prototype.includes
Includes(s, x) == \E i \in 1..Len(s) : s[i] = x

RECURSIVE Without(_, _)
\* Array.prototype.filter((id) => id !== x)
Without(s, x) ==
  IF s = <<>> THEN <<>>
  ELSE IF Head(s) = x THEN Without(Tail(s), x)
       ELSE <<Head(s)>> \o Without(Tail(s), x)

\* `msg-${Date.now()}`
MessageId(t) == t

\* the message without the isUser flag
UserMessageNoFlag(text, user, t) ==
  Msg(MessageId(t), user.id, text, t, NoReactions, FALSE)

\* the message built by handleSendMessage
UserMessage(text, user, t) ==
  Msg(MessageId(t), user.id, text, t, NoReactions, TRUE)

\* the message with the flag of handleSendMessage: isUser: true
SimulatedMessageOwn(randomUser, k, t) ==
  Msg(MessageId(t), randomUser.id, possibleMessages[k], t, NoReactions, TRUE)

\* the message built by the stop callback of simulateTyping
SimulatedMessage(randomUser, k, t) ==
  Msg(MessageId(t), randomUser.id, possibleMessages[k], t, NoReactions, FALSE)

\* the insert that waits for the other contacts to stop: prev.length === 0
AddTypingExclusive(prev, randomUser) ==
  IF prev = <<>>
  THEN Append(prev, [userId |-> randomUser.id, name |-> randomUser.name])
  ELSE prev

\* the updater without the insert
AddTypingNone(prev, randomUser) == prev

\* the insert without the prev.some(...) test
AddTypingAlways(prev, randomUser) ==
  Append(prev, [userId |-> randomUser.id, name |-> randomUser.name])

\* setTypingUsers((prev) => prev.some(...) ? prev : [...prev, {userId, name}])
AddTyping(prev, randomUser) ==
  IF ~ \E i \in 1..Len(prev) : prev[i].userId = randomUser.id
  THEN Append(prev, [userId |-> randomUser.id, name |-> randomUser.name])
  ELSE prev

\* the filter with === in place of !==: only the entry of the contact stays
RemoveTypingOthers(prev, randomUser) ==
  SelectSeq(prev, LAMBDA u : u.userId = randomUser.id)

\* the stop without the filter
RemoveTypingNone(prev, randomUser) == prev

\* the stop that clears the collection: setTypingUsers([])
RemoveTypingAll(prev, randomUser) == <<>>

RECURSIVE RemoveTyping(_, _)
\* setTypingUsers((prev) => prev.filter((u) => u.userId !== randomUser.id))
RemoveTyping(prev, randomUser) ==
  IF prev = <<>> THEN <<>>
  ELSE IF Head(prev).userId = randomUser.id
       THEN RemoveTyping(Tail(prev), randomUser)
       ELSE <<Head(prev)>> \o RemoveTyping(Tail(prev), randomUser)

\* the toggle that never removes the user
ToggleAlwaysAdd(reactions, emoji, uid) ==
  IF emoji \in DOMAIN reactions
  THEN [reactions EXCEPT ![emoji] = Append(reactions[emoji], uid)]
  ELSE [e \in (DOMAIN reactions) \cup {emoji} |->
          IF e = emoji THEN <<uid>> ELSE reactions[e]]

\* the toggle that deletes the key whenever it removes the user
ToggleDeleteKey(reactions, emoji, uid) ==
  IF emoji \in DOMAIN reactions
  THEN IF Includes(reactions[emoji], uid)
       THEN [e \in (DOMAIN reactions) \ {emoji} |-> reactions[e]]
       ELSE [reactions EXCEPT ![emoji] = Append(reactions[emoji], uid)]
  ELSE [e \in (DOMAIN reactions) \cup {emoji} |->
          IF e = emoji THEN <<uid>> ELSE reactions[e]]

\* the toggle without the delete of an emptied key
ToggleKeepEmptyKey(reactions, emoji, uid) ==
  IF emoji \in DOMAIN reactions
  THEN IF Includes(reactions[emoji], uid)
       THEN [reactions EXCEPT ![emoji] = Without(reactions[emoji], uid)]
       ELSE [reactions EXCEPT ![emoji] = Append(reactions[emoji], uid)]
  ELSE [e \in (DOMAIN reactions) \cup {emoji} |->
          IF e = emoji THEN <<uid>> ELSE reactions[e]]

\* the toggle that starts the list again when it adds: [currentUser.id]
ToggleReplaceReactors(reactions, emoji, uid) ==
  IF emoji \in DOMAIN reactions /\ Includes(reactions[emoji], uid)
  THEN LET rest == Without(reactions[emoji], uid)
       IN IF Len(rest) = 0
          THEN [e \in (DOMAIN reactions) \ {emoji} |-> reactions[e]]
          ELSE [reactions EXCEPT ![emoji] = rest]
  ELSE [e \in (DOMAIN reactions) \cup {emoji} |->
          IF e = emoji THEN <<uid>> ELSE reactions[e]]

\* the new reactions of a message that handleReaction matched
ToggleReaction(reactions, emoji, uid) ==
  IF emoji \in DOMAIN reactions
  THEN IF Includes(reactions[emoji], uid)
       THEN LET rest == Without(reactions[emoji], uid)
            IN IF Len(rest) = 0
               THEN [e \in (DOMAIN reactions) \ {emoji} |-> reactions[e]]
               ELSE [reactions EXCEPT ![emoji] = rest]
       ELSE [reactions EXCEPT ![emoji] = Append(reactions[emoji], uid)]
  ELSE [e \in (DOMAIN reactions) \cup {emoji} |->
          IF e = emoji THEN <<uid>> ELSE reactions[e]]

\* filter in place of map: only the matched messages are kept
MapReactionMatchedOnly(prev, messageId, emoji, uid) ==
  SelectSeq([i \in 1..Len(prev) |->
               IF prev[i].id = messageId
               THEN [prev[i] EXCEPT !.reactions =
                       ToggleReaction(@, emoji, uid)]
               ELSE prev[i]],
            LAMBDA msg : msg.id = messageId)

\* a fallback to the last message when no id matches
MapReactionOrLast(prev, messageId, emoji, uid) ==
  LET found == \E i \in 1..Len(prev) : prev[i].id = messageId
  IN [i \in 1..Len(prev) |->
        IF prev[i].id = messageId \/ (~found /\ i = Len(prev))
        THEN [prev[i] EXCEPT !.reactions =
                IF emoji \in DOMAIN @ THEN @
                ELSE [e \in (DOMAIN @) \cup {emoji} |->
                        IF e = emoji THEN <<uid>> ELSE @[e]]]
        ELSE prev[i]]

\* prev.map((msg) => msg.id === messageId ? {...msg, reactions} : msg)
MapReaction(prev, messageId, emoji, uid) ==
  [i \in 1..Len(prev) |->
     IF prev[i].id = messageId
     THEN [prev[i] EXCEPT !.reactions = ToggleReaction(@, emoji, uid)]
     ELSE prev[i]]

\* the fields of a message that no operation changes
Core(m) == [id |-> m.id, senderId |-> m.senderId, content |-> m.content,
            timestamp |-> m.timestamp, isUser |-> m.isUser]

Op(op, id, key) == [op |-> op, id |-> id, key |-> key]

\* the closures of a render of the given stores
Rendered(msgs, text) == [messages |-> msgs, newMessage |-> text]

\* 2000 + Math.random() * 3000 with Math.random() in [0, 1): the shortest
\* and the longest delay that setTimeout is given
TypingDurations == { TypingMin, TypingMin + TypingSpread - 1 }

\* the length of a calendar day
DayMs == 24 * HourMs

\* Date.prototype.toDateString: the calendar day of an instant, as the
\* number of the day (the text is one-to-one with the day)
toDateString(date) == date \div DayMs

\* Date.prototype.toLocaleDateString: the day, month and year with the
\* separators of the locale; the text is one-to-one with the day, is neither
\* 'Today' nor 'Yesterday' and is not the text of an integer
toLocaleDateString(date) == "date/" \o ToString(toDateString(date))

\* the labels by the time elapsed, not by the calendar day
formatDateElapsed(date, today) ==
  IF today - date < DayMs THEN "Today"
  ELSE IF today - date < 2 * DayMs THEN "Yesterday"
  ELSE toLocaleDateString(date)

\* formatDate(date), today being the value of new Date()
formatDate(date, today) ==
  LET yesterday == today - DayMs
  IN IF toDateString(date) = toDateString(today) THEN "Today"
     ELSE IF toDateString(date) = toDateString(yesterday) THEN "Yesterday"
     ELSE toLocaleDateString(date)

\* acc[dateKey].unshift(message) in place of push
PushFirst(acc, dateKey, message) ==
  IF \E i \in 1..Len(acc) : acc[i].date = dateKey
  THEN [i \in 1..Len(acc) |->
          IF acc[i].date = dateKey
          THEN [acc[i] EXCEPT !.dateMessages = <<message>> \o @]
          ELSE acc[i]]
  ELSE Append(acc, [date |-> dateKey, dateMessages |-> <<message>>])

\* if (!acc[dateKey]) acc[dateKey] = []; acc[dateKey].push(message).
\* The object acc is the sequence of its entries in the order of
\* Object.entries: no key is an array index, so the keys are enumerated in
\* the order in which they were created.
Push(acc, dateKey, message) ==
  IF \E i \in 1..Len(acc) : acc[i].date = dateKey
  THEN [i \in 1..Len(acc) |->
          IF acc[i].date = dateKey
          THEN [acc[i] EXCEPT !.dateMessages = Append(@, message)]
          ELSE acc[i]]
  ELSE Append(acc, [date |-> dateKey, dateMessages |-> <<message>>])

RECURSIVE Reduce(_, _, _)
\* msgs.reduce((acc, message) => ..., acc)
Reduce(acc, msgs, today) ==
  IF msgs = <<>> THEN acc
  ELSE Reduce(Push(acc, formatDate(Head(msgs).timestamp, today), Head(msgs)),
              Tail(msgs), today)

\* the value of the memo groupedMessages computed at the instant today
GroupByDate(msgs, today) == Reduce(<<>>, msgs, today)

\* users.filter((user) => user.status === 'online')
OnlineListOnlineOnly(roster) ==
  SelectSeq(roster, LAMBDA user : user.status = "online")

\* users.filter((user) => user.status !== 'offline')
OnlineList(roster) == SelectSeq(roster, LAMBDA user : user.status # "offline")

\* users.filter((user) => user.status === 'offline')
OfflineList(roster) == SelectSeq(roster, LAMBDA user : user.status = "offline")

\* the updater that validates the status: offline cannot be chosen
WithStatusNotOffline(prev, status) ==
  IF status = "offline" THEN prev ELSE [prev EXCEPT !.status = status]

\* the updater without the spread: ({ id: prev.id, name: prev.name, status })
WithStatusNoSpread(prev, status) ==
  [id |-> prev.id, name |-> prev.name, avatar |-> "", status |-> status]

\* (prev) => ({ ...prev, status })
WithStatus(prev, status) == [prev EXCEPT !.status = status]

(* ------------------------------- Init ---------------------------------- *)

Init ==
  /\ currentUser = [id |-> "user-1", name |-> "John Doe", avatar |-> "male0",
                    status |-> "online"]
  /\ users = defaultUsers
  /\ messages = defaultMessages
  /\ newMessage = <<>>
  /\ typingUsers = <<>>
  /\ selectedUser = users[1]
  /\ view = Rendered(defaultMessages, <<>>)
  /\ groupedMessages = GroupByDate(defaultMessages, LoadTime)
  /\ interval = LoadTime + TickPeriod
  /\ timeouts = <<>>
  /\ now = LoadTime
  /\ mounted = TRUE
  /\ appended = <<>>
  /\ nEvents = 0
  /\ lastOp = Op("init", 0, "")

(* ------------------------------ timers --------------------------------- *)

\* the due times of the pending timers: the interval while the component is
\* mounted, and every timeout
PendingDues ==
  (IF mounted THEN {interval} ELSE {}) \cup
  { timeouts[i].due : i \in 1..Len(timeouts) }

\* the timer due at time due may run now
MayRun(due) == now >= due /\ \A d \in PendingDues : d >= due

\* the test without the status: randomUser.id !== currentUser.id
MayTypeAnyStatus(randomUser) == randomUser.id # currentUser.id

\* randomUser.status === 'online' && randomUser.id !== currentUser.id
MayType(randomUser) ==
  randomUser.status = "online" /\ randomUser.id # currentUser.id

\* useMemo(() => ..., [messages]) in a render that follows an event which
\* leaves the array messages as it is: the memo is computed again when the
\* array is not the one of the previous render
Memo ==
  IF view.messages = messages THEN groupedMessages
  ELSE GroupByDate(messages, now)

(* ------------------------------ actions -------------------------------- *)

\* onChange of the compose box: setNewMessage(e.target.value)
setNewMessage(text) ==
  /\ mounted
  /\ nEvents < MaxEvents
  /\ nEvents' = nEvents + 1
  /\ newMessage' = text
  /\ view' = Rendered(messages, text)
  /\ groupedMessages' = Memo
  /\ lastOp' = Op("setNewMessage", 0, "")
  /\ UNCHANGED <<currentUser, users, messages, typingUsers, selectedUser,
                 interval, timeouts, now, mounted, appended>>

\* handleSendMessage without setNewMessage('')
handleSendMessageKeepsText ==
  /\ mounted
  /\ nEvents < MaxEvents
  /\ nEvents' = nEvents + 1
  /\ IF Trim(view.newMessage) # <<>>
     THEN LET message == UserMessage(view.newMessage, currentUser, now)
          IN /\ messages' = Append(messages, message)
             /\ newMessage' = newMessage
             /\ view' = Rendered(messages', newMessage)
             /\ groupedMessages' = GroupByDate(messages', now)
             /\ appended' = Append(appended, Core(message))
             /\ lastOp' = Op("handleSendMessage", message.id, "sent")
     ELSE /\ UNCHANGED <<messages, newMessage, view, groupedMessages,
                         appended>>
          /\ lastOp' = Op("handleSendMessage", 0, "blank")
  /\ UNCHANGED <<currentUser, users, typingUsers, selectedUser, interval,
                 timeouts, now, mounted>>

\* handleSendMessage of the second version (click on send, or Enter)
handleSendMessage ==
  /\ mounted
  /\ nEvents < MaxEvents
  /\ nEvents' = nEvents + 1
  /\ IF Trim(view.newMessage) # <<>>
     THEN LET message == UserMessage(view.newMessage, currentUser, now)
          IN /\ messages' = Append(messages, message)
             /\ newMessage' = <<>>
             /\ view' = Rendered(messages', <<>>)
             /\ groupedMessages' = GroupByDate(messages', now)
             /\ appended' = Append(appended, Core(message))
             /\ lastOp' = Op("handleSendMessage", message.id, "sent")
     ELSE /\ UNCHANGED <<messages, newMessage, view, groupedMessages,
                         appended>>
          /\ lastOp' = Op("handleSendMessage", 0, "blank")
  /\ UNCHANGED <<currentUser, users, typingUsers, selectedUser, interval,
                 timeouts, now, mounted>>

\* handleSendMessage of the first version: setMessages([...messages, message])
\* with the messages of the rendered view
handleSendMessageV1 ==
  /\ mounted
  /\ nEvents < MaxEvents
  /\ nEvents' = nEvents + 1
  /\ IF Trim(view.newMessage) # <<>>
     THEN LET message == UserMessage(view.newMessage, currentUser, now)
          IN /\ messages' = Append(view.messages, message)
             /\ newMessage' = <<>>
             /\ view' = Rendered(messages', <<>>)
             /\ groupedMessages' = GroupByDate(messages', now)
             /\ appended' = Append(appended, Core(message))
             /\ lastOp' = Op("handleSendMessage", message.id, "sent")
     ELSE /\ UNCHANGED <<messages, newMessage, view, groupedMessages,
                         appended>>
          /\ lastOp' = Op("handleSendMessage", 0, "blank")
  /\ UNCHANGED <<currentUser, users, typingUsers, selectedUser, interval,
                 timeouts, now, mounted>>

\* handleReaction(messageId, emoji)
handleReaction(messageId, emoji) ==
  /\ mounted
  /\ nEvents < MaxEvents
  /\ nEvents' = nEvents + 1
  /\ messages' = MapReaction(messages, messageId, emoji, currentUser.id)
  /\ view' = Rendered(messages', newMessage)
  /\ groupedMessages' = GroupByDate(messages', now)
  /\ lastOp' = Op("handleReaction", messageId, emoji)
  /\ UNCHANGED <<currentUser, users, newMessage, typingUsers, selectedUser,
                 interval, timeouts, now, mounted, appended>>

\* the effect of the simulation with the dependency currentUser: a new
\* status runs the cleanup and sets the interval again
updateStatusRestartsEffect(status) ==
  /\ mounted
  /\ nEvents < MaxEvents
  /\ nEvents' = nEvents + 1
  /\ currentUser' = WithStatus(currentUser, status)
  /\ interval' = IF status = currentUser.status THEN interval
                 ELSE now + TickPeriod
  /\ view' = Rendered(messages, newMessage)
  /\ groupedMessages' = Memo
  /\ lastOp' = Op("updateStatus", 0, status)
  /\ UNCHANGED <<users, messages, newMessage, typingUsers, selectedUser,
                 timeouts, now, mounted, appended>>

\* the status written to the contacts of the roster as well
updateStatusInRoster(status) ==
  /\ mounted
  /\ nEvents < MaxEvents
  /\ nEvents' = nEvents + 1
  /\ currentUser' = WithStatus(currentUser, status)
  /\ users' = [k \in 1..Len(users) |-> WithStatus(users[k], status)]
  /\ view' = Rendered(messages, newMessage)
  /\ groupedMessages' = Memo
  /\ lastOp' = Op("updateStatus", 0, status)
  /\ UNCHANGED <<messages, newMessage, typingUsers, selectedUser, interval,
                 timeouts, now, mounted, appended>>

\* updateStatus(status)
updateStatus(status) ==
  /\ mounted
  /\ nEvents < MaxEvents
  /\ nEvents' = nEvents + 1
  /\ currentUser' = WithStatus(currentUser, status)
  /\ view' = Rendered(messages, newMessage)
  /\ groupedMessages' = Memo
  /\ lastOp' = Op("updateStatus", 0, status)
  /\ UNCHANGED <<users, messages, newMessage, typingUsers, selectedUser,
                 interval, timeouts, now, mounted, appended>>

\* a click on the selected contact closes the conversation
setSelectedUserToggle(user) ==
  /\ mounted
  /\ nEvents < MaxEvents
  /\ nEvents' = nEvents + 1
  /\ selectedUser' = IF selectedUser = user
                     THEN [users[1] EXCEPT !.id = "", !.name = ""]
                     ELSE user
  /\ view' = Rendered(messages, newMessage)
  /\ groupedMessages' = Memo
  /\ lastOp' = Op("setSelectedUser", 0, user.id)
  /\ UNCHANGED <<currentUser, users, messages, newMessage, typingUsers,
                 interval, timeouts, now, mounted, appended>>

\* click on a roster button: setSelectedUser(user)
setSelectedUser(user) ==
  /\ mounted
  /\ nEvents < MaxEvents
  /\ nEvents' = nEvents + 1
  /\ selectedUser' = user
  /\ view' = Rendered(messages, newMessage)
  /\ groupedMessages' = Memo
  /\ lastOp' = Op("setSelectedUser", 0, user.id)
  /\ UNCHANGED <<currentUser, users, messages, newMessage, typingUsers,
                 interval, timeouts, now, mounted, appended>>

\* the callback of setInterval(simulateTyping, 8000).  proceed is
\* Math.random() > 0.5, k the index of randomUser, typingDuration the delay
\* of the stop.  The interval is due again at the next multiple of the
\* period after its first due time (a late run does not shift the grid).
\* A pending timeout is kept with the time at which setTimeout was called.
simulateTyping(proceed, k, typingDuration) ==
  /\ mounted
  /\ MayRun(interval)
  /\ interval' = interval + TickPeriod * (((now - interval) \div TickPeriod) + 1)
  /\ LET randomUser == users[k]
     IN IF proceed /\ MayType(randomUser)
        THEN /\ typingUsers' = AddTyping(typingUsers, randomUser)
             /\ timeouts' = Append(timeouts, [randomUser |-> randomUser,
                                              start |-> now,
                                              due |-> now + typingDuration])
             /\ lastOp' = Op("simulateTyping", 0, randomUser.id)
        ELSE /\ UNCHANGED <<typingUsers, timeouts>>
             /\ lastOp' = Op("simulateTyping", 0, "")
  /\ UNCHANGED <<currentUser, users, messages, newMessage, selectedUser,
                 view, groupedMessages, now, mounted, appended, nEvents>>

\* the callback of the i-th pending setTimeout of simulateTyping.  post is
\* Math.random() > 0.2, k the index into possibleMessages.  It runs whether
\* or not the component is mounted: setInterval discards the function that
\* simulateTyping returns, so clearTimeout is never called.  The updates
\* that it queues for a component that is no longer mounted are dropped.
typingTimeout(i, post, k) ==
  /\ i \in 1..Len(timeouts)
  /\ MayRun(timeouts[i].due)
  /\ timeouts' = [j \in 1..(Len(timeouts) - 1) |->
                    IF j < i THEN timeouts[j] ELSE timeouts[j + 1]]
  /\ IF mounted
     THEN /\ typingUsers' = RemoveTyping(typingUsers, timeouts[i].randomUser)
          /\ IF post
             THEN LET message ==
                        SimulatedMessage(timeouts[i].randomUser, k, now)
                  IN /\ messages' = Append(messages, message)
                     /\ appended' = Append(appended, Core(message))
                     /\ lastOp' = Op("typingTimeout", message.id,
                                     message.senderId)
             ELSE /\ UNCHANGED <<messages, appended>>
                  /\ lastOp' = Op("typingTimeout", 0,
                                  timeouts[i].randomUser.id)
     ELSE /\ UNCHANGED <<typingUsers, messages, appended>>
          /\ lastOp' = Op("typingTimeout", 0, timeouts[i].randomUser.id)
  /\ UNCHANGED <<currentUser, users, newMessage, selectedUser, view,
                 groupedMessages, interval, now, mounted, nEvents>>

\* the render that follows the updates of a timer callback
Render ==
  /\ mounted
  /\ view # Rendered(messages, newMessage)
  /\ view' = Rendered(messages, newMessage)
  /\ groupedMessages' = GroupByDate(messages, now)
  /\ lastOp' = Op("render", 0, "")
  /\ UNCHANGED <<currentUser, users, messages, newMessage, typingUsers,
                 selectedUser, interval, timeouts, now, mounted, appended,
                 nEvents>>

\* the component is removed: the cleanup of the effect runs
\* clearInterval(interval); nothing clears the pending timeouts
Unmount ==
  /\ mounted
  /\ mounted' = FALSE
  /\ lastOp' = Op("unmount", 0, "")
  /\ UNCHANGED <<currentUser, users, messages, newMessage, typingUsers,
                 selectedUser, view, groupedMessages, interval, timeouts, now,
                 appended, nEvents>>

\* time passes up to the quantum limit, unless a pending timer is late
AdvanceTo(limit) ==
  /\ now + Quantum <= LoadTime + limit * Quantum
  /\ \A d \in PendingDues : now <= d
  /\ now' = now + Quantum
  /\ lastOp' = Op("advance", 0, "")
  /\ UNCHANGED <<currentUser, users, messages, newMessage, typingUsers,
                 selectedUser, view, groupedMessages, interval, timeouts,
                 mounted, appended, nEvents>>

Advance == AdvanceTo(MaxClock)

\* the clock of the specification of the typing simulation alone
AdvanceSim == AdvanceTo(MaxSimClock)

\* the emojis that the view offers for a message: the reaction menu
\* (quickStatuses) and one button per key of message.reactions
EmojiInputs(id) ==
  MenuInputs \cup
  UNION { DOMAIN view.messages[i].reactions :
            i \in { j \in 1..Len(view.messages) : view.messages[j].id = id } }

MessageIds ==
  { view.messages[i].id : i \in TargetInputs(Len(view.messages)) }

Simulator ==
  \/ \E proceed \in BOOLEAN, k \in 1..Len(users), d \in TypingDurations :
        simulateTyping(proceed, k, d)
  \/ \E i \in 1..Len(timeouts), post \in BOOLEAN, k \in CannedInputs :
        typingTimeout(i, post, k)
  \/ Render
  \/ Unmount
  \/ Advance

Events ==
  \/ \E text \in ComposeTexts : setNewMessage(text)
  \/ \E id \in MessageIds \cup {AbsentId} :
       \E emoji \in EmojiInputs(id) : handleReaction(id, emoji)
  \/ \E status \in UserStatus : updateStatus(status)
  \/ \E k \in SelectInputs : setSelectedUser(users[k])

Next == handleSendMessage \/ Events \/ Simulator

Spec == Init /\ [][Next]_vars

NextV1 == handleSendMessageV1 \/ Events \/ Simulator

SpecV1 == Init /\ [][NextV1]_vars

\* the typing simulation alone, over a longer time: the events of the user
\* neither read nor write typingUsers, the timers or the clock
NextSim ==
  \/ \E proceed \in BOOLEAN, k \in 1..Len(users), d \in TypingDurations :
        simulateTyping(proceed, k, d)
  \/ \E i \in 1..Len(timeouts), post \in BOOLEAN, k \in CannedInputs :
        typingTimeout(i, post, k)
  \/ Render
  \/ Unmount
  \/ AdvanceSim

SpecSim == Init /\ [][NextSim]_vars

\* the values of Math.random() > 0.5 drawn in a tick: none starts a contact
\* typing once the clock is a tick period before its last value, so that
\* every stop is due while the clock still runs
StartInputs ==
  IF now + TickPeriod <= LoadTime + MaxSimClock * Quantum
  THEN BOOLEAN ELSE {FALSE}

Tick ==
  \E proceed \in StartInputs, k \in 1..Len(users), d \in TypingDurations :
    simulateTyping(proceed, k, d)

Stop ==
  \E i \in 1..Len(timeouts), post \in BOOLEAN, k \in CannedInputs :
    typingTimeout(i, post, k)

NextLive == Tick \/ Stop \/ Render \/ Unmount \/ AdvanceSim

\* the event loop runs a timer task that is due, and time passes
SpecLive ==
  /\ Init /\ [][NextLive]_vars
  /\ WF_vars(Tick) /\ WF_vars(Stop) /\ WF_vars(AdvanceSim)

\* the component after the user has typed a text into the compose box
InitDraft ==
  /\ currentUser = [id |-> "user-1", name |-> "John Doe", avatar |-> "male0",
                    status |-> "online"]
  /\ users = defaultUsers
  /\ messages = defaultMessages
  /\ newMessage \in ComposeTexts
  /\ typingUsers = <<>>
  /\ selectedUser = users[1]
  /\ view = Rendered(defaultMessages, newMessage)
  /\ groupedMessages = GroupByDate(defaultMessages, LoadTime)
  /\ interval = LoadTime + TickPeriod
  /\ timeouts = <<>>
  /\ now = LoadTime
  /\ mounted = TRUE
  /\ appended = <<>>
  /\ nEvents = 0
  /\ lastOp = Op("init", 0, "")

\* the conversation: the compose box, the send button and the reactions,
\* with the typing simulation; the status menu and the roster buttons
\* neither read nor write messages and newMessage
NextDraft ==
  \/ handleSendMessage
  \/ \E text \in ComposeTexts : setNewMessage(text)
  \/ \E id \in MessageIds \cup {AbsentId} :
       \E emoji \in EmojiInputs(id) : handleReaction(id, emoji)
  \/ Simulator

SpecDraft == InitDraft /\ [][NextDraft]_vars

\* the timestamps of the messages that groupedMessages is computed for: the
\* first and the last millisecond of three days in a row, and the first
\* millisecond of the day after
StampInputs ==
  { 0, DayMs - 1, DayMs, 2 * DayMs - 1, 2 * DayMs, 3 * DayMs - 1, 3 * DayMs }

\* the values of new Date() in formatDate: the first and the last
\* millisecond of the third day
ClockInputs == { 2 * DayMs, 3 * DayMs - 1 }

\* the component starts with any list of at most MaxMessages messages, in
\* any order of their timestamps, at any of the clock values, and has not
\* rendered yet
InitGroup ==
  /\ currentUser = [id |-> "user-1", name |-> "John Doe", avatar |-> "male0",
                    status |-> "online"]
  /\ users = defaultUsers
  /\ \E n \in 0..MaxMessages :
       \E stamp \in [1..n -> StampInputs] :
         messages = [i \in 1..n |->
                       Msg(i, users[1].id, possibleMessages[1], stamp[i],
                           NoReactions, FALSE)]
  /\ newMessage = <<>>
  /\ typingUsers = <<>>
  /\ selectedUser = users[1]
  /\ view = Rendered(<<>>, <<>>)
  /\ groupedMessages = <<>>
  /\ now \in ClockInputs
  /\ interval = now + TickPeriod
  /\ timeouts = <<>>
  /\ mounted = TRUE
  /\ appended = <<>>
  /\ nEvents = 0
  /\ lastOp = Op("init", 0, "")

\* the render computes groupedMessages
NextGroup == Render

SpecGroup == InitGroup /\ [][NextGroup]_vars

(* ---------------------------- properties ------------------------------- *)

Range(s) == { s[i] : i \in 1..Len(s) }

Ids(msgs) == [i \in 1..Len(msgs) |-> msgs[i].id]

IsPrefix(s, t) == Len(s) <= Len(t) /\ \A i \in 1..Len(s) : s[i] = t[i]

\* the user of whom a reaction is toggled
Me == currentUser.id

\* a text with no symbol other than whitespace
IsBlank(s) == \A i \in 1..Len(s) : s[i] = " "

\* C1: no two messages of the conversation store have the same id, also when
\* two messages are appended at the same clock value.
C1_UniqueMessageIds ==
  \A i, j \in 1..Len(messages) : i # j => messages[i].id # messages[j].id

\* C2: every message that was ever appended by handleSendMessage or by a stop
\* callback is still in the conversation store.
C2_NoMessageLost ==
  \A k \in 1..Len(appended) :
    \E i \in 1..Len(messages) : Core(messages[i]) = appended[k]

\* C3: in every step the sequence of message ids before the step is a prefix
\* of the sequence after it: nothing is removed or reordered.
C3_AppendOnly == [][IsPrefix(Ids(messages), Ids(messages'))]_vars

C3_Witness ==
  /\ Len(messages) = Len(defaultMessages) + 2
  /\ lastOp.op = "typingTimeout" /\ lastOp.id # 0
  /\ messages[Len(messages) - 1].isUser

\* C4: handleSendMessage with an empty or whitespace-only compose text leaves
\* the conversation store, the compose input, the typing indicators and the
\* local user unchanged.
C4_BlankSendIsNoOp ==
  [][(lastOp'.op = "handleSendMessage" /\ IsBlank(newMessage))
       => UNCHANGED <<messages, newMessage, typingUsers, currentUser>>]_vars

C4_Witness ==
  /\ lastOp = Op("handleSendMessage", 0, "blank")
  /\ newMessage = <<" ">>
  /\ messages = defaultMessages

\* C5: handleSendMessage with a compose text that is not blank appends
\* exactly one message at the end of the store, sent by the local user, with
\* the own flag, the current time as timestamp and no reactions.
C5_SendAppendsOne ==
  [][(lastOp'.op = "handleSendMessage" /\ ~IsBlank(newMessage))
       => /\ Len(messages') = Len(messages) + 1
          /\ \A i \in 1..Len(messages) : messages'[i] = messages[i]
          /\ LET m == messages'[Len(messages')]
             IN /\ m.senderId = currentUser.id
                /\ m.isUser = TRUE
                /\ m.timestamp = now
                /\ m.content = newMessage
                /\ DOMAIN m.reactions = {}]_vars

C5_Witness ==
  /\ lastOp.op = "handleSendMessage" /\ lastOp.key = "sent"
  /\ Len(messages) = Len(defaultMessages) + 1
  /\ messages[Len(messages)].content = <<" ", "hi", " ">>
  /\ now > LoadTime

\* C6: handleReaction(messageId, emoji) toggles the local user in the reactor
\* set of that emoji of the message: added when the key or the user is
\* absent, removed when present, and the key is deleted when the removal
\* leaves no reactor.
C6_ToggleMembership ==
  [][lastOp'.op = "handleReaction" =>
       \A i \in 1..Len(messages) :
         messages[i].id = lastOp'.id =>
           LET old == messages[i].reactions
               new == messages'[i].reactions
               e == lastOp'.key
           IN IF e \in DOMAIN old /\ Me \in Range(old[e])
              THEN /\ e \in DOMAIN new => (Me \notin Range(new[e])
                                            /\ new[e] # <<>>)
                   /\ Range(old[e]) = {Me} => e \notin DOMAIN new
                   /\ Range(old[e]) # {Me} => e \in DOMAIN new
              ELSE e \in DOMAIN new /\ Me \in Range(new[e])]_vars

C6_Witness ==
  /\ lastOp = Op("handleReaction", 6, "thumbsup")
  /\ nEvents = 2
  /\ "thumbsup" \notin DOMAIN messages[6].reactions

SameReactors(r1, r2) ==
  /\ DOMAIN r1 = DOMAIN r2
  /\ \A e \in DOMAIN r1 : Range(r1[e]) = Range(r2[e])

\* handleReaction(msg.id, emoji) called twice on a store that holds msg
ToggledTwice(msg, emoji) ==
  MapReaction(MapReaction(<<msg>>, msg.id, emoji, Me), msg.id, emoji, Me)

\* the emojis that differ for a reactions mapping: its keys, and emojis of
\* quickStatuses (the code compares an emoji with the keys and nothing else)
EmojiCases(reactions) ==
  (DOMAIN reactions) \cup {quickStatuses[1], quickStatuses[Len(quickStatuses)]}

\* C7: from any reachable state, for any message of the store and any emoji,
\* two calls of handleReaction(messageId, emoji) in a row restore the emoji
\* keys and the reactor sets of that message.
C7_ToggleTwiceRestores ==
  \A i \in 1..Len(messages) :
    \A emoji \in EmojiCases(messages[i].reactions) :
      LET twice == ToggledTwice(messages[i], emoji)
      IN /\ Len(twice) = 1
         /\ Core(twice[1]) = Core(messages[i])
         /\ SameReactors(twice[1].reactions, messages[i].reactions)

C7_Witness ==
  /\ lastOp = Op("handleReaction", 3, "heart")
  /\ nEvents = 2
  /\ messages[3].reactions["heart"] = <<"user-4", "user-1">>

\* C8: no message has an emoji key with an empty reactor list.
C8_NoEmptyReactorSet ==
  \A i \in 1..Len(messages) :
    \A e \in DOMAIN messages[i].reactions : Len(messages[i].reactions[e]) > 0

C8_Witness ==
  /\ lastOp.op = "handleReaction" /\ lastOp.key = "thumbsup"
  /\ lastOp.id > LoadTime
  /\ DOMAIN messages[Len(messages)].reactions = {}

\* C9: handleReaction with a message id that no message of the store has
\* leaves every message and its reactions unchanged.
C9_AbsentIdIsNoOp ==
  [][(lastOp'.op = "handleReaction"
        /\ \A i \in 1..Len(messages) : messages[i].id # lastOp'.id)
       => messages' = messages]_vars

C9_Witness ==
  /\ lastOp = Op("handleReaction", AbsentId, "thumbsup")
  /\ \A i \in 1..Len(messages) : messages[i].id # AbsentId

\* C10: at most one typing indicator exists for any contact id.
C10_OneIndicatorPerContact ==
  \A i, j \in 1..Len(typingUsers) :
    i # j => typingUsers[i].userId # typingUsers[j].userId

C10_Witness ==
  /\ lastOp = Op("simulateTyping", 0, "user-2")
  /\ Len(timeouts) = 2
  /\ timeouts[1].randomUser.id = "user-2"
  /\ timeouts[2].randomUser.id = "user-2"
  /\ Len(typingUsers) = 1

\* C11: a stop callback for contact c removes at most one entry of
\* typingUsers, the entry of c (it is gone afterwards while the component is
\* mounted), and leaves the entries of every other contact as they were, in
\* the same order.
C11_StopRemovesOne ==
  [][lastOp'.op = "typingTimeout" =>
       LET c == lastOp'.key
           Others(list) == SelectSeq(list, LAMBDA u : u.userId # c)
       IN /\ Len(typingUsers) - Len(typingUsers') \in {0, 1}
          /\ Others(typingUsers') = Others(typingUsers)
          /\ mounted => typingUsers' = Others(typingUsers)]_vars

C11_Witness ==
  /\ lastOp.op = "typingTimeout" /\ lastOp.key = "user-2"
  /\ mounted
  /\ Len(typingUsers) = 1 /\ typingUsers[1].userId = "user-3"
  /\ Len(timeouts) = 1 /\ timeouts[1].randomUser.id = "user-3"

\* C12: every typing indicator, and every pending stop, belongs to a contact
\* of the roster whose status is online and who is not the local user; no
\* contact that is busy, brb or offline is typing.
C12_OnlyOnlineContactsType ==
  /\ \A i \in 1..Len(typingUsers) :
        /\ typingUsers[i].userId # currentUser.id
        /\ \E k \in 1..Len(users) :
              /\ users[k].id = typingUsers[i].userId
              /\ users[k].name = typingUsers[i].name
              /\ users[k].status = "online"
  /\ \A i \in 1..Len(timeouts) :
        /\ timeouts[i].randomUser.id # currentUser.id
        /\ \E k \in 1..Len(users) :
              users[k] = timeouts[i].randomUser /\ users[k].status = "online"

C12_Witness ==
  /\ lastOp = Op("simulateTyping", 0, "user-3")
  /\ currentUser.status = "busy"
  /\ Len(typingUsers) = 1 /\ typingUsers[1].userId = "user-3"

\* C13: contacts do not exclude each other: a tick that picks an online
\* contact leaves that contact typing and keeps the indicators of the
\* contacts that were typing.  C13_Witness is the state in which two
\* contacts are typing at the same time.
C13_StartKeepsOthers ==
  [][(lastOp'.op = "simulateTyping" /\ lastOp'.key # "") =>
       /\ \E i \in 1..Len(typingUsers') : typingUsers'[i].userId = lastOp'.key
       /\ IsPrefix(typingUsers, typingUsers')]_vars

C13_Witness ==
  /\ Len(typingUsers) = 2
  /\ typingUsers[1].userId = "user-2"
  /\ typingUsers[2].userId = "user-3"
  /\ lastOp = Op("simulateTyping", 0, "user-3")

\* C14: once the component is unmounted neither the interval callback nor a
\* stop callback that was scheduled before runs, and typingUsers and
\* messages stay as they are.
C14_TeardownCancels ==
  [][~mounted =>
       /\ lastOp'.op \notin {"simulateTyping", "typingTimeout"}
       /\ UNCHANGED <<typingUsers, messages>>]_vars

\* the label that formatDate gives the i-th rendered message
LabelAt(i) == formatDate(view.messages[i].timestamp, now)

\* the position in the rendered list of the message with the id of m
Pos(m) == CHOOSE i \in 1..Len(view.messages) : view.messages[i].id = m.id

\* C15: the groups of groupedMessages are in the order in which their labels
\* first occur in the message list, whatever the order of the timestamps,
\* and the messages of a group are in the order of the message list.
C15_GroupsKeepOrder ==
  /\ \A g, h \in 1..Len(groupedMessages) :
        g < h =>
          \E i \in 1..Len(view.messages) :
            /\ LabelAt(i) = groupedMessages[g].date
            /\ \A j \in 1..Len(view.messages) :
                  LabelAt(j) = groupedMessages[h].date => i < j
  /\ \A g \in 1..Len(groupedMessages) :
        LET dateMessages == groupedMessages[g].dateMessages
        IN \A i, j \in 1..Len(dateMessages) :
             i < j => Pos(dateMessages[i]) < Pos(dateMessages[j])

C15_Witness ==
  /\ lastOp.op = "render"
  /\ Len(groupedMessages) = 2
  /\ groupedMessages[1].date = "Today"
  /\ groupedMessages[2].date = "Yesterday"
  /\ Ids(groupedMessages[1].dateMessages) = <<1, 3>>
  /\ Ids(groupedMessages[2].dateMessages) = <<2>>
  /\ view.messages[3].timestamp < view.messages[1].timestamp

\* the places <<g, k>> of groupedMessages that hold the message m
Places(m) ==
  { gk \in UNION { {g} \X (1..Len(groupedMessages[g].dateMessages)) :
                     g \in 1..Len(groupedMessages) } :
      groupedMessages[gk[1]].dateMessages[gk[2]] = m }

\* C16: groupedMessages is a partition of the message list by label: every
\* message is in exactly one group and nothing else is, no two groups have
\* the same label, and the label of the group of a message is 'Today' when
\* its calendar day is the current day, 'Yesterday' when it is the day
\* before, and the date text of its day otherwise.
C16_GroupsPartitionByLabel ==
  /\ \A i \in 1..Len(view.messages) :
        /\ Cardinality(Places(view.messages[i])) = 1
        /\ \A gk \in Places(view.messages[i]) :
              LET day == view.messages[i].timestamp \div DayMs
                  current == now \div DayMs
              IN groupedMessages[gk[1]].date =
                   IF day = current THEN "Today"
                   ELSE IF day = current - 1 THEN "Yesterday"
                   ELSE toLocaleDateString(view.messages[i].timestamp)
  /\ \A g \in 1..Len(groupedMessages) :
        /\ \A k \in 1..Len(groupedMessages[g].dateMessages) :
              \E i \in 1..Len(view.messages) :
                view.messages[i] = groupedMessages[g].dateMessages[k]
        /\ \A h \in 1..Len(groupedMessages) :
              g # h => groupedMessages[g].date # groupedMessages[h].date

C16_Witness ==
  /\ lastOp.op = "render"
  /\ now = 3 * DayMs - 1
  /\ Len(groupedMessages) = 3
  /\ groupedMessages[1].date = toLocaleDateString(DayMs - 1)
  /\ groupedMessages[2].date = "Yesterday"
  /\ groupedMessages[3].date = "Today"
  /\ view.messages[2].timestamp = DayMs
  /\ view.messages[3].timestamp = 2 * DayMs

\* C17: updateStatus changes nothing but the status of the local user: the
\* id, the name and the avatar of the local user, the roster with the status
\* of every contact, and the other stores are the same after the call.
C17_StatusOnly ==
  [][lastOp'.op = "updateStatus" =>
       /\ DOMAIN currentUser' = DOMAIN currentUser
       /\ currentUser'.id = currentUser.id
       /\ currentUser'.name = currentUser.name
       /\ currentUser'.avatar = currentUser.avatar
       /\ Len(users') = Len(users)
       /\ \A k \in 1..Len(users) : users'[k].status = users[k].status
       /\ UNCHANGED <<messages, newMessage, typingUsers, selectedUser>>]_vars

C17_Witness ==
  /\ lastOp = Op("updateStatus", 0, "busy")
  /\ currentUser = [id |-> "user-1", name |-> "John Doe", avatar |-> "male0",
                    status |-> "busy"]
  /\ users[3].status = "busy" /\ users[1].status = "online"

\* C18: after updateStatus(status) the status of the local user is status,
\* for each of the four values, also the value it had and offline.
C18_StatusIsSet ==
  [][lastOp'.op = "updateStatus" =>
       /\ lastOp'.key \in UserStatus
       /\ currentUser'.status = lastOp'.key]_vars

C18_Witness ==
  /\ lastOp = Op("updateStatus", 0, "offline")
  /\ currentUser.status = "offline"
  /\ nEvents = 2

\* C19: the roster is the roster of the start in every state: no contact is
\* added, removed or changed, and no status of a contact changes.
C19_RosterFixed ==
  /\ Len(users) = Len(defaultUsers)
  /\ \A k \in 1..Len(users) : users[k] = defaultUsers[k]

C19_Witness ==
  /\ lastOp.op = "typingTimeout" /\ lastOp.id # 0
  /\ currentUser.status = "offline"
  /\ selectedUser = users[Len(users)]

\* the position in the roster of the contact user
RosterPos(user) == CHOOSE k \in 1..Len(users) : users[k].id = user.id

\* C20: every contact of the roster is in exactly one of the online list and
\* the offline list, in the offline list exactly when its status is offline,
\* and each list is in the order of the roster.
C20_RosterPartition ==
  LET online == OnlineList(users)
      offline == OfflineList(users)
      InOnline(user) == { i \in 1..Len(online) : online[i] = user }
      InOffline(user) == { i \in 1..Len(offline) : offline[i] = user }
  IN /\ \A k \in 1..Len(users) :
          /\ Cardinality(InOnline(users[k]))
                + Cardinality(InOffline(users[k])) = 1
          /\ InOffline(users[k]) # {} <=> users[k].status = "offline"
     /\ Len(online) + Len(offline) = Len(users)
     /\ \A i, j \in 1..Len(online) :
          i < j => RosterPos(online[i]) < RosterPos(online[j])
     /\ \A i, j \in 1..Len(offline) :
          i < j => RosterPos(offline[i]) < RosterPos(offline[j])

C20_Witness ==
  /\ lastOp = Op("setSelectedUser", 0, "user-6")
  /\ Ids(OnlineList(users)) = <<"user-2", "user-3", "user-4", "user-5">>
  /\ Ids(OfflineList(users)) = <<"user-6">>
  /\ selectedUser = OfflineList(users)[1]

\* the ids of the contacts
ContactIds == { defaultUsers[k].id : k \in 1..Len(defaultUsers) }

\* the contact with the id c has a typing indicator
Typing(c) == \E i \in 1..Len(typingUsers) : typingUsers[i].userId = c

\* C21 as claimed: while the component is mounted, a typing indicator is
\* present only for a contact that has a pending stop whose tick ran no more
\* than 5 time units ago: the indicator is gone 5 time units after the tick
\* that started it.
C21_RemovedWithinFive ==
  mounted =>
    \A c \in ContactIds :
      Typing(c) =>
        \E i \in 1..Len(timeouts) :
          /\ timeouts[i].randomUser.id = c
          /\ now <= timeouts[i].start + TypingMin + TypingSpread

\* C21 as amended: an indicator of a mounted component is removed in the
\* end (the timer tasks that are due run), and while it is present a stop
\* of its contact is pending that is due less than 5 time units after the
\* tick that scheduled it; the stop runs when it is due or later.
C21_EventuallyRemoved ==
  /\ \A c \in ContactIds : Typing(c) ~> (~Typing(c) \/ ~mounted)
  /\ [](mounted =>
          \A c \in ContactIds :
            Typing(c) =>
              \E i \in 1..Len(timeouts) :
                /\ timeouts[i].randomUser.id = c
                /\ timeouts[i].due < timeouts[i].start + TypingMin
                                                       + TypingSpread)

C21_Witness ==
  /\ lastOp.op = "typingTimeout" /\ lastOp.key = "user-2"
  /\ mounted
  /\ ~Typing("user-2")
  /\ timeouts = <<>>
  /\ now = LoadTime + 2 * TickPeriod

\* the sequence s without its i-th element
RemoveAt(s, i) ==
  [j \in 1..(Len(s) - 1) |-> IF j < i THEN s[j] ELSE s[j + 1]]

\* C22: a message appended by a stop callback is sent by the contact of the
\* stop that ran, who is an online contact of the roster and not the local
\* user; its text is one of the five canned texts, it has no reactions and
\* no own flag, its timestamp is the current time, and the contact has no
\* typing indicator after the step.
C22_SimulatedMessageWellFormed ==
  [][(lastOp'.op = "typingTimeout" /\ lastOp'.id # 0) =>
       /\ Len(messages') = Len(messages) + 1
       /\ LET m == messages'[Len(messages')]
          IN /\ \E i \in 1..Len(timeouts) :
                   /\ timeouts' = RemoveAt(timeouts, i)
                   /\ timeouts[i].randomUser.id = m.senderId
             /\ \E k \in 1..Len(users) :
                   users[k].id = m.senderId /\ users[k].status = "online"
             /\ m.senderId # currentUser.id
             /\ m.content \in Range(possibleMessages)
             /\ DOMAIN m.reactions = {}
             /\ m.isUser = FALSE
             /\ m.timestamp = now
             /\ \A j \in 1..Len(typingUsers') :
                   typingUsers'[j].userId # m.senderId]_vars

C22_Witness ==
  /\ lastOp = Op("typingTimeout", now, "user-3")
  /\ Len(messages) = Len(defaultMessages) + 1
  /\ messages[Len(messages)].content = possibleMessages[5]
  /\ typingUsers = <<>>
  /\ currentUser.status = "brb"

\* C23: a tick that picks a contact who has a typing indicator leaves
\* typingUsers as it is: the same entries in the same order.
C23_DuplicateStartKeepsList ==
  [][(lastOp'.op = "simulateTyping" /\ lastOp'.key # ""
        /\ Typing(lastOp'.key))
       => typingUsers' = typingUsers]_vars

C23_Witness ==
  /\ lastOp = Op("simulateTyping", 0, "user-3")
  /\ Len(timeouts) = 2
  /\ timeouts[1].randomUser.id = "user-3"
  /\ timeouts[2].randomUser.id = "user-3"
  /\ timeouts[1].start < timeouts[2].start
  /\ typingUsers = <<[userId |-> "user-3", name |-> "Robert Johnson"]>>

\* C24: handleSendMessage with a compose text that is not blank leaves the
\* compose box empty, in the store and in the view, and a handleSendMessage
\* that follows it at once appends nothing.
C24_SendClearsCompose ==
  [][/\ (lastOp'.op = "handleSendMessage" /\ ~IsBlank(newMessage))
          => (newMessage' = <<>> /\ view'.newMessage = <<>>)
     /\ (lastOp'.op = "handleSendMessage"
          /\ lastOp.op = "handleSendMessage" /\ lastOp.key = "sent")
          => (messages' = messages /\ newMessage' = <<>>)]_vars

C24_Witness ==
  /\ lastOp = Op("handleSendMessage", 0, "blank")
  /\ nEvents = 2
  /\ newMessage = <<>>
  /\ Len(messages) = Len(defaultMessages) + 1
  /\ messages[Len(messages)].isUser
  /\ messages[Len(messages)].content = <<" ", "hi", " ">>

\* C25: handleReaction changes the reactions of at most one message of the
\* store.
C25_OneMessageChanged ==
  [][lastOp'.op = "handleReaction" =>
       Cardinality({ i \in 1..Len(messages) :
                       messages'[i].reactions # messages[i].reactions }) <= 1]_vars

\* the users who reacted with the emoji e in the mapping r
Reactors(r, e) == IF e \in DOMAIN r THEN Range(r[e]) ELSE {}

\* C26: handleReaction(messageId, emoji) keeps the number and the order of
\* the messages and the id, sender, text, timestamp and own flag of each;
\* in every message the lists of the other emojis are the same, and under
\* emoji the users other than the local user are the same.
C26_ToggleFrame ==
  [][lastOp'.op = "handleReaction" =>
       /\ Len(messages') = Len(messages)
       /\ \A i \in 1..Len(messages) :
            LET old == messages[i].reactions
                new == messages'[i].reactions
            IN /\ Core(messages'[i]) = Core(messages[i])
               /\ \A e \in (DOMAIN old) \cup (DOMAIN new) :
                    IF e = lastOp'.key
                    THEN Reactors(new, e) \ {Me} = Reactors(old, e) \ {Me}
                    ELSE /\ e \in DOMAIN old /\ e \in DOMAIN new
                         /\ new[e] = old[e]]_vars

C26_Witness ==
  /\ lastOp = Op("handleReaction", 1, "thumbsup")
  /\ messages[1].reactions["thumbsup"] = <<"user-3", "user-1">>
  /\ messages[3].reactions = defaultMessages[3].reactions
  /\ nEvents = 1

\* C27 as claimed: at most one stop is pending and at most one contact has
\* a typing indicator.
C27_OnePendingStop == Len(timeouts) <= 1 /\ Len(typingUsers) <= 1

\* C27 as amended: more than one stop can be pending; while the component
\* is mounted every typing indicator belongs to a contact with a pending
\* stop, so that typingUsers has at most as many entries as there are
\* pending stops.
C27_IndicatorsHavePendingStops ==
  mounted =>
    /\ Len(typingUsers) <= Len(timeouts)
    /\ \A i \in 1..Len(typingUsers) :
          \E j \in 1..Len(timeouts) :
            timeouts[j].randomUser.id = typingUsers[i].userId

C27_Witness ==
  /\ mounted
  /\ Len(timeouts) = 2
  /\ Len(typingUsers) = 2
  /\ timeouts[1].randomUser.id # timeouts[2].randomUser.id
  /\ timeouts[1].due > interval - TickPeriod

\* C28 as claimed: when a stop callback appends a message of a contact,
\* the contact has a typing indicator in the state before the callback.
C28_MessagePrecededByTyping ==
  [][(lastOp'.op = "typingTimeout" /\ lastOp'.id # 0)
       => Typing(lastOp'.key)]_vars

\* C28 as amended: a message of a contact is appended by a stop that a tick
\* scheduled for that contact, and the tick left the contact with a typing
\* indicator; the indicator need not last until the stop runs.
C28_MessageFollowsStart ==
  [][/\ (lastOp'.op = "simulateTyping" /\ lastOp'.key # "") =>
          /\ \E i \in 1..Len(typingUsers') :
                typingUsers'[i].userId = lastOp'.key
          /\ Len(timeouts') = Len(timeouts) + 1
          /\ SubSeq(timeouts', 1, Len(timeouts)) = timeouts
          /\ timeouts'[Len(timeouts')].randomUser.id = lastOp'.key
     /\ (lastOp'.op = "typingTimeout" /\ lastOp'.id # 0) =>
          \E i \in 1..Len(timeouts) :
            /\ timeouts' = RemoveAt(timeouts, i)
            /\ timeouts[i].randomUser.id = messages'[Len(messages')].senderId
            /\ timeouts[i].due <= now]_vars

C28_Witness ==
  /\ lastOp = Op("typingTimeout", now, "user-2")
  /\ mounted
  /\ Len(messages) = Len(defaultMessages) + 2
  /\ messages[Len(messages) - 1].senderId = "user-2"
  /\ messages[Len(messages) - 1].timestamp = now
  /\ messages[Len(messages)].senderId = "user-2"
  /\ typingUsers = <<>>

\* C29: updateStatus, handleSendMessage, handleReaction and the choice of a
\* contact leave the interval, the pending stops and the typing indicators
\* as they are and do not unmount the component.
C29_SimulatorUntouched ==
  [][lastOp'.op \in {"updateStatus", "handleSendMessage", "handleReaction",
                     "setSelectedUser"}
       => UNCHANGED <<interval, timeouts, typingUsers, mounted>>]_vars

C29_Witness ==
  /\ lastOp = Op("updateStatus", 0, "offline")
  /\ currentUser.status = "offline"
  /\ now > LoadTime + TickPeriod
  /\ Len(timeouts) = 1
  /\ Len(typingUsers) = 1

\* C30: the selected contact is a contact of the roster in every state, and
\* a click on a roster button selects a contact of the roster and leaves
\* the messages, the typing indicators and the status of the local user as
\* they are.
C30_ContactSelected ==
  /\ [](\E k \in 1..Len(users) : selectedUser = users[k])
  /\ [][lastOp'.op = "setSelectedUser" =>
          /\ \E k \in 1..Len(users) : selectedUser' = users[k]
          /\ selectedUser'.id = lastOp'.key
          /\ UNCHANGED <<messages, typingUsers>>
          /\ currentUser'.status = currentUser.status]_vars

C30_Witness ==
  /\ lastOp = Op("setSelectedUser", 0, "user-2")
  /\ selectedUser = users[1]
  /\ nEvents = 2
  /\ Len(typingUsers) = 1
  /\ Len(messages) = Len(defaultMessages) + 1

====
